---- MODULE Spec2Model ----
(***************************************************************************)
(* Electron-Monitor (src/main.py): a batch job that, for every configured  *)
(* room, scrapes the remaining electricity balance, estimates the power    *)
(* draw and the hours left from the stored history, appends the reading,   *)
(* trims the history to 180 days, and pushes an alert when the balance or  *)
(* the hours left are under the room's thresholds.                         *)
(*                                                                         *)
(* Representation of numbers.  Times are integer minutes.  A balance is an *)
(* integer number of 1/KwhScale kWh.  A rate (kWh per hour) is computed    *)
(* exactly, as a fraction <<n, d>> with d > 0, and compared and rounded as *)
(* such; the rounded results the code returns are integers: power in       *)
(* 1/1000 kWh/h (round(x, 3)) and hours in 1/10 h (round(x, 1)).           *)
(* The code computes in binary floating point: where the exact quotient    *)
(* lies exactly halfway between two decimals the float may round to either *)
(* neighbour; the model rounds such ties to even.                          *)
(*                                                                         *)
(* Environment.  One process runs at a time, and the wall clock read by    *)
(* datetime.now() is not set back between two runs.  The configuration is  *)
(* present and well formed (otherwise main() exits before the loop).       *)
(***************************************************************************)
EXTENDS Integers, Sequences, FiniteSets, TLC

VARIABLES
    clock,          \* wall clock at the start of the latest run
    runs,           \* number of runs started so far
    pc,             \* position of the running process in main()
    data_file,      \* content of data.json on disk
    public_file,    \* content of public_config.json on disk
    loaded,         \* content of data.json as the current run loaded it
    saves,          \* calls of save_json(DATA_FILE, ...) in the current run
    full_data,      \* main(): full_data
    current_time,   \* main(): current_time
    public_configs, \* main(): public_configs
    i,              \* main(): index of the room the loop is at
    kwh,            \* main(): kwh
    room_history,   \* main(): room_history
    stats,          \* main(): stats
    alert_msg,      \* main(): alert_msg
    is_alert,       \* main(): is_alert
    fetched,        \* results of get_electricity_balance in the current run:
                    \* <<>> for None, <<v>> for the balance v
    pushed          \* requests posted by push_message in the current run

vars == <<clock, runs, pc, data_file, public_file, loaded, saves, full_data,
          current_time, public_configs, i, kwh, room_history, stats,
          alert_msg, is_alert, fetched, pushed>>

-----------------------------------------------------------------------------
\* Units and program constants

None == "None"

KwhScale == 100

MinutesPerHour == 60

MAX_HISTORY_DAYS == 180

SENTINEL_HOURS == 9999

RetentionMinutes == MAX_HISTORY_DAYS * 24 * MinutesPerHour

\* round(hours_left, 1) of the sentinel 9999, in tenths of an hour
SentinelTenths == SENTINEL_HOURS * 10

DEFAULT_THRESHOLD_KWH == 10

DEFAULT_THRESHOLD_HOURS == 24

-----------------------------------------------------------------------------
\* Bounds of the model

MaxRuns == 2

MaxLen == 3

ClockStart == 10 * RetentionMinutes

\* minutes between the starts of two consecutive runs
Gaps == {5, 60, RetentionMinutes}

\* balances the page can show, in 1/KwhScale kWh: -1.50, 45.00, 50.00, 200.00
FetchValues == {-150, 4500, 5000, 20000}

-----------------------------------------------------------------------------
\* Arithmetic

Abs(x) == IF x < 0 THEN -x ELSE x

RECURSIVE GCD(_, _)
GCD(a, b) == IF b = 0 THEN a ELSE GCD(b, a % b)

\* n / d (d > 0) rounded to the nearest integer, ties to even
RoundHalfEven(n, d) ==
    LET q == n \div d
        r == n % d
    IN  IF 2 * r < d THEN q
        ELSE IF 2 * r > d THEN q + 1
        ELSE IF q % 2 = 0 THEN q ELSE q + 1

\* a * b / c (c > 0) rounded, with the fraction reduced before multiplying
MulDivRound(a, b, c) ==
    LET g1 == GCD(Abs(a), c)
        a1 == IF g1 = 0 THEN a ELSE a \div g1
        c1 == IF g1 = 0 THEN c ELSE c \div g1
        g2 == GCD(Abs(b), c1)
        b1 == IF g2 = 0 THEN b ELSE b \div g2
        c2 == IF g2 = 0 THEN c1 ELSE c1 \div g2
    IN  RoundHalfEven(a1 * b1, c2)

Zero == <<0, 1>>

\* round(rate, 3), in 1/1000 kWh/h
Round3(rate) == MulDivRound(1000, rate[1], rate[2])

-----------------------------------------------------------------------------
\* dict.get

Get(d, key, default) == IF key \in DOMAIN d THEN d[key] ELSE default

Put(d, key, value) ==
    [k \in (DOMAIN d) \cup {key} |-> IF k = key THEN value ELSE d[k]]

-----------------------------------------------------------------------------
\* calculate_estimated_time

\* A stored record; calculate_estimated_time reads only 'time' and 'kwh'.
Record(time, k, st) ==
    [time |-> time, kwh |-> k, power_1h |-> st.power_1h,
     power_24h |-> st.power_24h, estimated_hours |-> st.hours_left]

\* get_time(rec): the record's timestamp, in minutes
get_time(rec) == rec.time

\* The loop of find_past_record from position k down, best_match being the
\* index best (0 for None) and min_diff being min (-1 for float('inf')).
RECURSIVE ScanBreakFirst(_, _, _, _, _, _)
ScanBreakFirst(history, target_time, limit, k, best, min) ==
    IF k = 0 THEN best
    ELSE LET diff == Abs(get_time(history[k]) - target_time)
             less == min = -1 \/ diff < min
         IN  IF diff > limit THEN best
             ELSE ScanBreakFirst(history, target_time, limit, k - 1,
                                 IF less THEN k ELSE best,
                                 IF less THEN diff ELSE min)

RECURSIVE Scan(_, _, _, _, _, _)
Scan(history, target_time, limit, k, best, min) ==
    IF k = 0 THEN best
    ELSE LET diff == Abs(get_time(history[k]) - target_time)
             less == min = -1 \/ diff < min
             best2 == IF less THEN k ELSE best
             min2 == IF less THEN diff ELSE min
         IN  IF diff > limit THEN best2
             ELSE Scan(history, target_time, limit, k - 1, best2, min2)

find_past_record_break_first(history, now, delta_hours) ==
    ScanBreakFirst(history, now - delta_hours * MinutesPerHour,
                   MinutesPerHour * (delta_hours + 1), Len(history), 0, -1)

\* find_past_record(delta_hours): the index in history of best_match
find_past_record(history, now, delta_hours) ==
    Scan(history, now - delta_hours * MinutesPerHour,
         MinutesPerHour * (delta_hours + 1), Len(history), 0, -1)

\* The rate computed from the matched record m (0: no match), kWh per hour as
\* a fraction; 0.0 unless time_diff_h > min_tenths / 10.
Power(history, m, current_kwh, now, min_tenths) ==
    IF m = 0 THEN Zero
    ELSE LET mins == now - get_time(history[m])
             kwh_diff == history[m].kwh - current_kwh
         IN  IF 10 * mins > min_tenths * MinutesPerHour
             THEN <<kwh_diff * MinutesPerHour, KwhScale * mins>>
             ELSE Zero

\* used_power: power_1h, else power_24h, else the floor 0.01
UsedPower(power_1h, power_24h) ==
    LET u == IF power_1h[1] <= 0 THEN power_24h ELSE power_1h
    IN  IF 1000 * u[1] <= u[2] THEN <<1, 100>> ELSE u

HoursLeft_unguarded(current_kwh, used_power) ==
    MulDivRound(10 * current_kwh, used_power[2], KwhScale * used_power[1])

\* round(hours_left, 1), in tenths of an hour
HoursLeft(current_kwh, used_power) ==
    IF current_kwh > 0
    THEN MulDivRound(10 * current_kwh, used_power[2], KwhScale * used_power[1])
    ELSE SentinelTenths

\* The estimate for a non-empty history.
Estimate(history, current_kwh, now) ==
    LET match_1h == find_past_record(history, now, 1)
        match_24h == find_past_record(history, now, 24)
        power_1h == Power(history, match_1h, current_kwh, now, 1)
        power_24h == Power(history, match_24h, current_kwh, now, 5)
    IN  [power_1h |-> Round3(power_1h),
         power_24h |-> Round3(power_24h),
         hours_left |-> HoursLeft(current_kwh, UsedPower(power_1h, power_24h))]

EmptyEstimate_zero_hours == [power_1h |-> 0, power_24h |-> 0, hours_left |-> 0]

\* lines 90-91: the estimate for an empty history
EmptyEstimate == [power_1h |-> 0, power_24h |-> 0, hours_left |-> SentinelTenths]

\* The earlier revision's defect: the parsed time is stored into the matched
\* records of the caller's list.
calculate_estimated_time_scratch(history, current_kwh, now) ==
    [stats |-> IF history = <<>> THEN EmptyEstimate
               ELSE Estimate(history, current_kwh, now),
     history |-> [k \in 1..Len(history) |->
                    IF k = find_past_record(history, now, 1)
                    THEN [time |-> history[k].time, kwh |-> history[k].kwh,
                          power_1h |-> history[k].power_1h,
                          power_24h |-> history[k].power_24h,
                          estimated_hours |-> history[k].estimated_hours,
                          dt |-> history[k].time]
                    ELSE history[k]]]

\* calculate_estimated_time(history, current_kwh, current_time): the returned
\* dict, and the caller's list object as the call leaves it (the body holds
\* no store into history or its records).
calculate_estimated_time(history, current_kwh, now) ==
    [stats |-> IF history = <<>> THEN EmptyEstimate
               ELSE Estimate(history, current_kwh, now),
     history |-> history]

-----------------------------------------------------------------------------
\* main

\* get_config(): two rooms, the first with the default thresholds, the
\* second with its own (kWh and hours) and an hours threshold above 9999.
Configs ==
    << [id |-> "r1", name |-> "Room1", url |-> "http://u1",
        pushplus_tokens |-> <<"tokA", "">>],
       [id |-> "r2", name |-> "Room2", url |-> "http://u2",
        alert_threshold_kwh |-> 60, alert_threshold_hours |-> 10000,
        pushplus_tokens |-> <<"tokB">>] >>

EmptyMap == [k \in {} |-> <<>>]

\* push_message(tokens, title, content): one request per non-empty token
RECURSIVE push_message(_, _, _)
push_message(tokens, title, content) ==
    IF tokens = <<>> THEN <<>>
    ELSE (IF Head(tokens) = "" THEN <<>>
          ELSE <<[token |-> Head(tokens), title |-> title, content |-> content]>>)
         \o push_message(Tail(tokens), title, content)

\* The locals of main() before the loop assigns them, and after the process ends
LocalsCleared ==
    /\ kwh' = None
    /\ room_history' = <<>>
    /\ stats' = EmptyEstimate
    /\ alert_msg' = <<>>
    /\ is_alert' = FALSE

\* lines 171-180: a process starts, Gap minutes after the previous one started
StartRun ==
    /\ pc \in {"idle", "done"}
    /\ runs < MaxRuns
    /\ Configs # <<>>
    /\ \E gap \in Gaps :
          /\ clock' = clock + gap
          /\ current_time' = clock + gap
    /\ runs' = runs + 1
    /\ full_data' = data_file
    /\ loaded' = data_file
    /\ public_configs' = <<>>
    /\ i' = 1
    /\ saves' = 0
    /\ fetched' = <<>>
    /\ pushed' = <<>>
    /\ LocalsCleared
    /\ pc' = "fetch"
    /\ UNCHANGED <<data_file, public_file>>

FetchNone_abort ==
    /\ pc = "fetch"
    /\ i <= Len(Configs)
    /\ public_configs' = Append(public_configs,
                                [id |-> Configs[i].id, name |-> Configs[i].name])
    /\ kwh' = None
    /\ fetched' = Append(fetched, <<>>)
    /\ i' = Len(Configs) + 1
    /\ UNCHANGED <<clock, runs, pc, data_file, public_file, loaded, saves, full_data,
                   current_time, room_history, stats, alert_msg, is_alert, pushed>>

\* lines 182-197, get_electricity_balance returning None: skip the room
FetchNone ==
    /\ pc = "fetch"
    /\ i <= Len(Configs)
    /\ public_configs' = Append(public_configs,
                                [id |-> Configs[i].id, name |-> Configs[i].name])
    /\ kwh' = None
    /\ fetched' = Append(fetched, <<>>)
    /\ i' = i + 1
    /\ UNCHANGED <<clock, runs, pc, data_file, public_file, loaded, saves, full_data,
                   current_time, room_history, stats, alert_msg, is_alert, pushed>>

\* lines 182-195, get_electricity_balance returning a balance
FetchValue ==
    /\ pc = "fetch"
    /\ i <= Len(Configs)
    /\ Configs[i].url # ""
    /\ public_configs' = Append(public_configs,
                                [id |-> Configs[i].id, name |-> Configs[i].name])
    /\ \E v \in FetchValues :
          /\ kwh' = v
          /\ fetched' = Append(fetched, <<v>>)
    /\ pc' = "estimate"
    /\ UNCHANGED <<clock, runs, data_file, public_file, loaded, saves, full_data,
                   current_time, i, room_history, stats, alert_msg, is_alert, pushed>>

\* lines 199-200: room_history is the list stored in full_data (a new empty
\* list when the room has none), passed by reference to the estimator
CallEstimate ==
    /\ pc = "estimate"
    /\ LET room_id == Configs[i].id
           r == calculate_estimated_time(Get(full_data, room_id, <<>>), kwh, current_time)
       IN  /\ stats' = r.stats
           /\ room_history' = r.history
           /\ full_data' = IF room_id \in DOMAIN full_data
                           THEN Put(full_data, room_id, r.history)
                           ELSE full_data
    /\ pc' = "append"
    /\ UNCHANGED <<clock, runs, data_file, public_file, loaded, saves, current_time,
                   public_configs, i, kwh, alert_msg, is_alert, fetched, pushed>>

Retain_inclusive(history, now) ==
    SelectSeq(history, LAMBDA r : get_time(r) >= now - RetentionMinutes)

\* line 213-214: the records newer than the cutoff
Retain(history, now) ==
    SelectSeq(history, LAMBDA r : get_time(r) > now - RetentionMinutes)

AppendRecord_front(history, rec) == <<rec>> \o history

\* line 210: room_history.append(new_record)
AppendRecord(history, rec) == Append(history, rec)

\* lines 202-215
AppendAndTrim ==
    /\ pc = "append"
    /\ LET new_record == Record(current_time, kwh, stats)
           kept == Retain(AppendRecord(room_history, new_record), current_time)
       IN  /\ room_history' = kept
           /\ full_data' = Put(full_data, Configs[i].id, kept)
    /\ pc' = "alert"
    /\ UNCHANGED <<clock, runs, data_file, public_file, loaded, saves, current_time,
                   public_configs, i, kwh, stats, alert_msg, is_alert, fetched, pushed>>

\* lines 218-225: the alert lines, "low" (balance) and "time" (hours left)
AlertLines(room, k, st) ==
    (IF k < Get(room, "alert_threshold_kwh", DEFAULT_THRESHOLD_KWH) * KwhScale
     THEN <<"low">> ELSE <<>>)
    \o
    (IF /\ st.hours_left < Get(room, "alert_threshold_hours", DEFAULT_THRESHOLD_HOURS) * 10
        /\ st.hours_left > 0
     THEN <<"time">> ELSE <<>>)

EvaluateAlert ==
    /\ pc = "alert"
    /\ alert_msg' = AlertLines(Configs[i], kwh, stats)
    /\ is_alert' = (AlertLines(Configs[i], kwh, stats) # <<>>)
    /\ pc' = "push"
    /\ UNCHANGED <<clock, runs, data_file, public_file, loaded, saves, full_data,
                   current_time, public_configs, i, kwh, room_history, stats,
                   fetched, pushed>>

\* lines 227-229, and the loop's step to the next room
Notify ==
    /\ pc = "push"
    /\ pushed' = IF is_alert
                 THEN pushed \o push_message(Get(Configs[i], "pushplus_tokens", <<>>),
                                             Configs[i].name, alert_msg)
                 ELSE pushed
    /\ i' = i + 1
    /\ pc' = "fetch"
    /\ UNCHANGED <<clock, runs, data_file, public_file, loaded, saves, full_data,
                   current_time, public_configs, kwh, room_history, stats,
                   alert_msg, is_alert, fetched>>

\* lines 231-236: after the loop both files are written and the process ends
SaveAll ==
    /\ pc = "fetch"
    /\ i > Len(Configs)
    /\ data_file' = full_data
    /\ public_file' = public_configs
    /\ saves' = saves + 1
    /\ pc' = "done"
    /\ full_data' = EmptyMap
    /\ public_configs' = <<>>
    /\ i' = 0
    /\ LocalsCleared
    /\ UNCHANGED <<clock, runs, loaded, current_time, fetched, pushed>>

Next ==
    \/ StartRun
    \/ FetchNone
    \/ FetchValue
    \/ CallEstimate
    \/ AppendAndTrim
    \/ EvaluateAlert
    \/ Notify
    \/ SaveAll

\* A first installation: no data.json
Init ==
    /\ clock = ClockStart
    /\ runs = 0
    /\ pc = "idle"
    /\ data_file = EmptyMap
    /\ public_file = <<>>
    /\ loaded = EmptyMap
    /\ saves = 0
    /\ full_data = EmptyMap
    /\ current_time = ClockStart
    /\ public_configs = <<>>
    /\ i = 0
    /\ kwh = None
    /\ room_history = <<>>
    /\ stats = EmptyEstimate
    /\ alert_msg = <<>>
    /\ is_alert = FALSE
    /\ fetched = <<>>
    /\ pushed = <<>>

Spec == Init /\ [][Next]_vars

-----------------------------------------------------------------------------
\* One run over a data.json written by earlier runs

\* ages, at ClockStart, of the records a loaded history may hold
LoadedAges == {0, 25, 85, 1380, 1440, RetentionMinutes - 6, RetentionMinutes - 5}

\* their balances: 40.00, 45.01, 50.00
LoadedKwh == {4000, 4501, 5000}

\* the histories of n records, oldest first, with increasing timestamps
LoadedOfLen(n) ==
    { [k \in 1..n |-> [time |-> ClockStart - f[k][1], kwh |-> f[k][2],
                        power_1h |-> 0, power_24h |-> 0,
                        estimated_hours |-> SentinelTenths]] :
        f \in { g \in [1..n -> LoadedAges \X LoadedKwh] :
                  \A k \in 1..(n - 1) : g[k][1] > g[k + 1][1] } }

LoadedHistories == UNION { LoadedOfLen(n) : n \in 0..MaxLen }

LoadedFiles ==
    {EmptyMap}
    \cup { Put(EmptyMap, "r1", h) : h \in LoadedHistories }
    \cup { Put(Put(EmptyMap, "r1", h), "r2", <<>>) : h \in LoadedHistories }

InitLoaded ==
    /\ clock = ClockStart
    /\ runs = MaxRuns - 1
    /\ pc = "idle"
    /\ data_file \in LoadedFiles
    /\ public_file = <<>>
    /\ loaded = EmptyMap
    /\ saves = 0
    /\ full_data = EmptyMap
    /\ current_time = ClockStart
    /\ public_configs = <<>>
    /\ i = 0
    /\ kwh = None
    /\ room_history = <<>>
    /\ stats = EmptyEstimate
    /\ alert_msg = <<>>
    /\ is_alert = FALSE
    /\ fetched = <<>>
    /\ pushed = <<>>

SpecLoaded == InitLoaded /\ [][Next]_vars

-----------------------------------------------------------------------------
\* Properties

RoomIndices == 1..Len(Configs)

PushedFor(room) == \E j \in 1..Len(pushed) : pushed[j].title = room.name

\* the estimate in stats is the one of the room the loop is at
StatsCurrent == pc \in {"append", "alert", "push"}

\* C1: when the fetch of a room returns None, the room's history is exactly
\* as loaded (a missing key stays missing) and nothing is pushed for it; every
\* other room is processed (its history ends with this run's reading), and
\* data.json is saved once, after all rooms.
C1_FailedFetchSkipsOnlyThatRoom ==
    pc = "done" =>
       /\ Len(fetched) = Len(Configs)
       /\ saves = 1
       /\ \A k \in RoomIndices :
             LET id == Configs[k].id
             IN  IF fetched[k] = <<>>
                 THEN /\ (id \in DOMAIN data_file) = (id \in DOMAIN loaded)
                      /\ Get(data_file, id, <<>>) = Get(loaded, id, <<>>)
                      /\ ~PushedFor(Configs[k])
                 ELSE /\ id \in DOMAIN data_file
                      /\ data_file[id] # <<>>
                      /\ data_file[id][Len(data_file[id])].time = current_time
                      /\ data_file[id][Len(data_file[id])].kwh = fetched[k][1]

\* a run in which the first room, which has a history, failed and the second
\* was processed and alerted
C1_Witness ==
    /\ pc = "done"
    /\ fetched[1] = <<>>
    /\ fetched[2] # <<>>
    /\ Get(loaded, "r1", <<>>) # <<>>
    /\ pushed # <<>>

\* C2: a room with no history (no key, or an empty list) and a fetched
\* balance v ends the run with the single record (v, 0, 0, 9999); with the
\* default thresholds nothing is pushed for it when v >= 10 kWh.
C2_FirstReading ==
    pc = "done" =>
       \A k \in RoomIndices :
          LET id == Configs[k].id
          IN  (Get(loaded, id, <<>>) = <<>> /\ fetched[k] # <<>>) =>
                 /\ id \in DOMAIN data_file
                 /\ data_file[id] = << [time |-> current_time, kwh |-> fetched[k][1],
                                        power_1h |-> 0, power_24h |-> 0,
                                        estimated_hours |-> 9999 * 10] >>
                 /\ ( /\ "alert_threshold_kwh" \notin DOMAIN Configs[k]
                      /\ "alert_threshold_hours" \notin DOMAIN Configs[k]
                      /\ fetched[k][1] >= 10 * KwhScale )
                    => ~PushedFor(Configs[k])

\* the first room, stored with an empty list, fetched 45.00
C2_Witness ==
    /\ pc = "done"
    /\ "r1" \in DOMAIN loaded
    /\ loaded["r1"] = <<>>
    /\ fetched[1] = <<4500>>
    /\ Len(data_file["r1"]) = 1

\* C3: hours_left is never negative, and is 9999 when the balance is <= 0.
C3_HoursLeftNotNegative ==
    StatsCurrent =>
       /\ stats.hours_left >= 0
       /\ kwh <= 0 => stats.hours_left = 9999 * 10

\* an estimate over a non-empty history for a negative balance
C3_Witness ==
    /\ pc = "append"
    /\ kwh < 0
    /\ room_history # <<>>

\* C4 (as claimed): the "time" line is never emitted when hours_left is
\* non-positive or 9999, and then an alert is sent only for a low balance.
C4_NoTimeAlertAtSentinel ==
    pc = "push" =>
       ((stats.hours_left <= 0 \/ stats.hours_left = 9999 * 10) =>
           /\ \A j \in 1..Len(alert_msg) : alert_msg[j] # "time"
           /\ is_alert =
                 (kwh < Get(Configs[i], "alert_threshold_kwh", 10) * KwhScale))

\* C5: the estimator leaves the stored history as it is: across the call
\* full_data does not change and room_history is the stored list; within a
\* run full_data changes only in the append-and-trim step, and only for the
\* room being processed.
C5_EstimateLeavesHistory ==
    [][ /\ pc = "estimate" =>
              /\ full_data' = full_data
              /\ room_history' = Get(full_data, Configs[i].id, <<>>)
        /\ (pc \notin {"idle", "done"} /\ pc' # "done" /\ full_data' # full_data) =>
              /\ pc = "append"
              /\ \A id \in DOMAIN full_data :
                    id # Configs[i].id =>
                       id \in DOMAIN full_data' /\ full_data'[id] = full_data[id]
      ]_vars

\* an estimate with a non-zero rate was computed from a non-empty history
C5_Witness ==
    /\ pc = "append"
    /\ room_history # <<>>
    /\ stats.power_1h # 0

\* C6: after a successful fetch the stored history is the loaded history
\* with the new reading appended, without exactly the entries stamped at or
\* before now - 180 days, the others in their order; the new reading is kept.
C6_AppendThenTrim ==
    pc \in {"alert", "push"} =>
       LET id == Configs[i].id
           all == Get(loaded, id, <<>>)
                     \o << [time |-> current_time, kwh |-> kwh,
                            power_1h |-> stats.power_1h,
                            power_24h |-> stats.power_24h,
                            estimated_hours |-> stats.hours_left] >>
           kept == { k \in 1..Len(all) :
                       all[k].time > current_time - 180 * 24 * 60 }
           nth(j) == CHOOSE k \in kept :
                        Cardinality({ m \in kept : m < k }) = j - 1
           now_stored == full_data[id]
       IN  /\ Len(now_stored) = Cardinality(kept)
           /\ \A j \in 1..Len(now_stored) : now_stored[j] = all[nth(j)]
           /\ now_stored # <<>>
           /\ now_stored[Len(now_stored)] = all[Len(all)]

\* of three loaded records the oldest, stamped exactly at the cutoff, went
\* and the two newer ones stayed
C6_Witness ==
    /\ pc = "alert"
    /\ i = 1
    /\ Len(Get(loaded, "r1", <<>>)) = 3
    /\ loaded["r1"][1].time = current_time - 180 * 24 * 60
    /\ Len(full_data["r1"]) = 3

\* C7: every persisted history is ordered by non-decreasing timestamp.
C7_PersistedHistoryOrdered ==
    \A id \in DOMAIN data_file :
       \A k \in 1..(Len(data_file[id]) - 1) :
          data_file[id][k].time <= data_file[id][k + 1].time

\* a second run has appended to the history the first run wrote
C7_Witness ==
    /\ pc = "done"
    /\ runs >= 2
    /\ "r1" \in DOMAIN data_file
    /\ Len(data_file["r1"]) >= 2

Distance(rec, now, lag_hours) == Abs(rec.time - (now - lag_hours * 60))

Ordered(history) ==
    \A k \in 1..(Len(history) - 1) : history[k].time <= history[k + 1].time

\* C8: on a non-empty history ordered by time with no timestamp after now,
\* find_past_record(L), L in {1, 24}, returns a record at the least distance
\* from now - L of the whole history, the most recent of those.
C8_FindPastRecordClosest ==
    ( /\ pc = "append"
      /\ room_history # <<>>
      /\ Ordered(room_history)
      /\ \A k \in 1..Len(room_history) : room_history[k].time <= current_time )
    => \A lag \in {1, 24} :
          LET m == find_past_record(room_history, current_time, lag)
              dist(k) == Distance(room_history[k], current_time, lag)
          IN  /\ m \in 1..Len(room_history)
              /\ \A k \in 1..Len(room_history) : dist(m) <= dist(k)
              /\ \A k \in (m + 1)..Len(room_history) : dist(k) > dist(m)

\* the 1-hour scan takes the newest record, within 2 hours of the target,
\* and stops at the second, more than 2 hours from it, leaving the oldest
\* record unvisited
C8_Witness ==
    /\ pc = "append"
    /\ Len(room_history) = 3
    /\ Distance(room_history[3], current_time, 1) <= 2 * 60
    /\ Distance(room_history[2], current_time, 1) > 2 * 60
    /\ find_past_record(room_history, current_time, 1) = 3

\* the rate the claim describes: the short-term rate if positive, else the
\* long-term rate if positive, else 0.01
C9_ClaimedRate(power_1h, power_24h) ==
    IF power_1h[1] > 0 THEN power_1h
    ELSE IF power_24h[1] > 0 THEN power_24h
    ELSE <<1, 100>>

\* C9 (as claimed): for a non-empty history and a positive balance,
\* hours_left is the balance over that rate (to one decimal); a record of
\* 50.00 one hour before a balance of 45.00 gives power_1h 5.0, hours_left 9.0.
C9_HoursLeftFromClaimedRate ==
    (pc = "append" /\ room_history # <<>> /\ kwh > 0) =>
       LET p1 == Power(room_history, find_past_record(room_history, current_time, 1),
                       kwh, current_time, 1)
           p24 == Power(room_history, find_past_record(room_history, current_time, 24),
                        kwh, current_time, 5)
           rate == C9_ClaimedRate(p1, p24)
       IN  /\ stats.hours_left = MulDivRound(10 * kwh, rate[2], KwhScale * rate[1])
           /\ ( /\ Len(room_history) = 1
                /\ room_history[1].kwh = 5000
                /\ room_history[1].time = current_time - 60
                /\ kwh = 4500 )
              => (stats.power_1h = 5000 /\ stats.hours_left = 90)

\* C10 (as claimed): hours_left never exceeds 9999, in an estimate or in a
\* persisted record.
C10_HoursLeftCapped ==
    /\ StatsCurrent => stats.hours_left <= 9999 * 10
    /\ \A id \in DOMAIN data_file :
          \A k \in 1..Len(data_file[id]) :
             data_file[id][k].estimated_hours <= 9999 * 10

====
